---- MODULE Spec2Model ----
(***************************************************************************)
(* A model of tutorial/tutsim.py: a population of agents (sex, age, hiv),  *)
(* the step loop of simulate, report and print_verbose_agent_info, and the *)
(* call sequence of main.                                                  *)
(*                                                                         *)
(* Numbers.  Python floats are modelled as exact rationals.  Durations,    *)
(* ages and dates are counted in units of 1/YearNum of a year, so that     *)
(* YEAR = 365.25 = YearNum / YearDen and i / YEAR = i * YearDen units.     *)
(* Probabilities (PROB_NEW_PARTNER, FORCE_INFECTION) are counted in units  *)
(* of 1/ProbDen, the draws of random.random() in units of 1/DrawDen, and a *)
(* quotient such as prevalence is kept as a record [num, den].             *)
(***************************************************************************)
EXTENDS Integers, Sequences, FiniteSets, TLC

\* ------------------------------------------------------------------ bounds
MaxAgents == 2
MaxGeom == 7
MaxYears == 2
MaxTimeStep == 2
ProbDen == 2
DrawDen == 4

\* ------------------------------------------------------- program constants
YearNum == 1461
YearDen == 4
MALE == 0
FEMALE == 1
MaxStage == 5
AgeLow == 15
AgeHigh == 20
StartYear == 2015

VARIABLES
    entry,          \* "main" or "simulate": the function the caller invoked
    agents,         \* the list `agents`: a sequence of agent identities
    sex, age, hiv,  \* the fields of every Agent object, by identity
    parameters,     \* the dict `parameters`
    pc,             \* position of the program
    num_iterations, \* simulate: local num_iterations
    i,              \* simulate: loop variable i
    j,              \* simulate: position of `for agent in agents` (1-based)
    prevalence,     \* simulate: local prevalence
    reports,        \* lines printed by report, in order
    blocks,         \* blocks printed by print_verbose_agent_info, in order
    err,            \* the exception that ended the program, or "none"
    hist            \* history: initial fields, per-step observations

vars == <<entry, agents, sex, age, hiv, parameters, pc, num_iterations, i, j,
          prevalence, reports, blocks, err, hist>>

\* ----------------------------------------------------------------- helpers
Min(a, b) == IF a < b THEN a ELSE b

Abs(a) == IF a < 0 THEN -a ELSE a

\* a / b on numbers: the quotient, kept exact
Quot(a, b) == [num |-> a, den |-> b]

\* int(a / b) for b # 0: Python's int() truncates towards zero
TruncDiv(a, b) ==
    IF (a >= 0) = (b > 0) THEN Abs(a) \div Abs(b) ELSE -(Abs(a) \div Abs(b))

RECURSIVE SumAges(_, _, _)
SumAges(ags, a, k) ==
    IF k = 0 THEN 0 ELSE a[ags[k]] + SumAges(ags, a, k - 1)

\* variant: the list is resampled with replacement instead of shuffled
Resampled(s) == {[k \in 1..Len(s) |-> s[q[k]]] : q \in [1..Len(s) -> 1..Len(s)]}

\* random.shuffle(s): every reordering of the list s is a possible outcome
Shuffled(s) ==
    {[k \in 1..Len(s) |-> s[p[k]]] :
        p \in {q \in [1..Len(s) -> 1..Len(s)] :
                  \A x \in 1..Len(s) : \E y \in 1..Len(s) : q[y] = x}}

\* ------------------------------------------------------------------- Agent
\* variant: the upper clamp is forgotten
InitStageNoClamp(g) == g - 1

\* self.hiv = min(numpy.random.geometric(p=0.9) - 1, 5)
InitStage(g) == Min(g - 1, MaxStage)

\* numpy.random.geometric returns the number of trials up to the first
\* success: an integer >= 1
GeomDraws == 1..MaxGeom

\* the three draws of one Agent(): random.randint(MALE, FEMALE),
\* random.uniform(15.0, 20.0), numpy.random.geometric(p=0.9)
AgentDraws ==
    { [sex |-> MALE,   age |-> AgeLow * YearNum,      geom |-> 1],
      [sex |-> FEMALE, age |-> AgeHigh * YearNum - 1, geom |-> 2],
      [sex |-> MALE,   age |-> AgeLow * YearNum + 1,  geom |-> MaxGeom] }

\* random.random(): a float in [0, 1)
Draws == 0..(DrawDen - 1)

\* no call of random.random()
NoDraw == -1

\* variant: random.random() is called before the guard on self.hiv
DrawsTakenAlways(h) == 1

\* the number of calls of random.random() in one infection_event of an agent
\* whose hiv is h: the call is inside `if self.hiv == 0`
DrawsTaken(h) == IF h = 0 THEN 1 ELSE 0

\* variant: the prevalence is left out of the product
RiskInfectionNoPrevalence(prev, prob_new_partner, force_infection) ==
    [num |-> force_infection * prob_new_partner * prev.den,
     den |-> ProbDen * ProbDen * prev.den]

\* risk_infection = force_infection * prob_new_partner * prevalence
RiskInfection(prev, prob_new_partner, force_infection) ==
    [num |-> force_infection * prob_new_partner * prev.num,
     den |-> ProbDen * ProbDen * prev.den]

\* variant: the comparison is <= instead of <
DrawAtMost(draw, risk) == draw * risk.den <= risk.num * DrawDen

\* random.random() < risk_infection  (risk.den > 0)
DrawBelow(draw, risk) == draw * risk.den < risk.num * DrawDen

\* variant: an infected agent moves on to the next stage
InfectionStageProgress(h, draw, prev, prob_new_partner, force_infection) ==
    IF h = 0
    THEN IF DrawBelow(draw, RiskInfection(prev, prob_new_partner, force_infection))
         THEN 1 ELSE h
    ELSE Min(h + 1, MaxStage)

\* variant: an else branch on the guard clears the stage of an infected agent
InfectionStageRecover(h, draw, prev, prob_new_partner, force_infection) ==
    IF h = 0
    THEN IF DrawBelow(draw, RiskInfection(prev, prob_new_partner, force_infection))
         THEN 1 ELSE h
    ELSE 0

\* Agent.infection_event: the value of self.hiv afterwards
InfectionStage(h, draw, prev, prob_new_partner, force_infection) ==
    IF h = 0
    THEN IF DrawBelow(draw, RiskInfection(prev, prob_new_partner, force_infection))
         THEN 1 ELSE h
    ELSE h

\* variant: = instead of +=
AgeAfterAssign(a, time_elapsed) == time_elapsed

\* Agent.age_event: the value of self.age afterwards
AgeAfter(a, time_elapsed) == a + time_elapsed

\* -------------------------------------------------------------- population
\* variant: the stages are summed instead of counted
InfectedSum(ags, h) ==
    SumAges(ags, h, Len(ags))

\* len([a.hiv for a in agents if a.hiv > 0])
Infected(ags, h) == Cardinality({k \in 1..Len(ags) : h[ags[k]] > 0})

\* variant: the prevalence is recomputed from the live population at every call
PrevalenceArgLive == Quot(Infected(agents, hiv), Len(agents))

\* the value simulate passes to infection_event as prevalence
PrevalenceArg == prevalence

\* the prevalence report prints
ReportPrevalence(ags, h) == Quot(Infected(ags, h), Len(ags))

\* variant: report reuses the prevalence the step computed before its events
ReportLineStale(date, ags, h) ==
    [date |-> date, infected |-> prevalence.num, prevalence |-> prevalence]

\* the line report prints
ReportLine(date, ags, h) ==
    [date |-> date, infected |-> Infected(ags, h), prevalence |-> ReportPrevalence(ags, h)]

\* variant: the date advances by TIME_STEP per step
ReportDateByTimeStep(start, step) == start + step * parameters.TIME_STEP

\* parameters["START_DATE"] + i / YEAR
ReportDate(start, step) == start + step * YearDen

\* the block print_verbose_agent_info prints (len(agents) > 0)
VerboseBlock(ags, s, a, h) ==
    [males |-> Cardinality({k \in 1..Len(ags) : s[ags[k]] = MALE}),
     avg_age |-> Quot(SumAges(ags, a, Len(ags)), Len(ags)),
     youngest |-> CHOOSE x \in {a[ags[k]] : k \in 1..Len(ags)} :
                      \A y \in {a[ags[k]] : k \in 1..Len(ags)} : x <= y,
     oldest |-> CHOOSE x \in {a[ags[k]] : k \in 1..Len(ags)} :
                      \A y \in {a[ags[k]] : k \in 1..Len(ags)} : x >= y,
     hiv_counts |-> [st \in 0..MaxStage |->
                        Cardinality({k \in 1..Len(ags) : h[ags[k]] = st})]]

\* ---------------------------------------------------------------- simulate
NumYearsSet == 0..MaxYears
TimeSteps == (-1)..MaxTimeStep
ProbNewPartners == {1, ProbDen}
ForceInfections == {0, 1, 4 * ProbDen}
StartDates == {StartYear * YearNum}

\* variant: the quotient is rounded away from zero
NumIterationsUp(num_years, time_step) ==
    IF Abs(num_years) % Abs(time_step) = 0
    THEN TruncDiv(num_years, time_step)
    ELSE TruncDiv(num_years, time_step) + 1

\* int(parameters['NUM_YEARS'] / parameters['TIME_STEP']), TIME_STEP # 0
NumIterations(num_years, time_step) == TruncDiv(num_years, time_step)

NoPrevalence == Quot(0, 0)

Init ==
    /\ entry \in {"main", "simulate"}
    /\ \E n \in 0..MaxAgents : \E d \in [1..n -> AgentDraws] :
          /\ agents = [k \in 1..n |-> k]
          /\ sex = [k \in 1..n |-> d[k].sex]
          /\ age = [k \in 1..n |-> d[k].age]
          /\ hiv = [k \in 1..n |-> InitStage(d[k].geom)]
    /\ parameters \in [NUM_YEARS : NumYearsSet, TIME_STEP : TimeSteps,
                       START_DATE : StartDates,
                       PROB_NEW_PARTNER : ProbNewPartners,
                       FORCE_INFECTION : ForceInfections]
    /\ pc = IF entry = "main" THEN "verbose_pre" ELSE "simulate"
    /\ num_iterations = 0
    /\ i = 0
    /\ j = 0
    /\ prevalence = NoPrevalence
    /\ reports = <<>>
    /\ blocks = <<>>
    /\ err = "none"
    /\ hist = [sex0 |-> sex, age0 |-> age, hiv0 |-> hiv,
               stepHiv |-> hiv, prevCount |-> 0, args |-> <<>>,
               steps |-> <<>>, events |-> <<>>,
               draw |-> NoDraw, drawCount |-> 0]

\* print_verbose_agent_info(agents), called by main before and after simulate
PrintVerbose(at, next) ==
    /\ pc = at
    /\ IF Len(agents) = 0
       THEN /\ err' = "ZeroDivisionError"      \* sum([...]) / len(agents)
            /\ pc' = "raised"
            /\ UNCHANGED blocks
       ELSE /\ blocks' = Append(blocks, VerboseBlock(agents, sex, age, hiv))
            /\ pc' = next
            /\ UNCHANGED err
    /\ UNCHANGED <<entry, agents, sex, age, hiv, parameters, num_iterations, i, j,
                   prevalence, reports, hist>>

PrintVerbosePre == PrintVerbose("verbose_pre", "simulate")

PrintVerbosePost == PrintVerbose("verbose_post", "done")

\* simulate, line 42: num_iterations = int(NUM_YEARS / TIME_STEP)
SimulateBegin ==
    /\ pc = "simulate"
    /\ IF parameters.TIME_STEP = 0
       THEN /\ err' = "ZeroDivisionError"
            /\ pc' = "raised"
            /\ UNCHANGED <<num_iterations, i>>
       ELSE /\ num_iterations' = NumIterations(parameters.NUM_YEARS, parameters.TIME_STEP)
            /\ i' = 0
            /\ pc' = "loop"
            /\ UNCHANGED err
    /\ UNCHANGED <<entry, agents, sex, age, hiv, parameters, j, prevalence,
                   reports, blocks, hist>>

\* variant: the range is one index too long
LoopContinuesInclusive(idx, n) == idx <= n

\* for i in range(num_iterations): the loop still has an index to run
LoopContinues(idx, n) == idx < n

\* lines 43-44: the loop takes index i and shuffles the list
Shuffle ==
    /\ pc = "loop"
    /\ LoopContinues(i, num_iterations)
    /\ agents' \in Shuffled(agents)
    /\ pc' = "prevalence"
    /\ hist' = [hist EXCEPT !.stepHiv = hiv, !.prevCount = 0, !.args = <<>>,
                            !.steps = Append(@, i), !.events = <<>>,
                            !.draw = NoDraw, !.drawCount = 0]
    /\ UNCHANGED <<entry, sex, age, hiv, parameters, num_iterations, i, j,
                   prevalence, reports, blocks, err>>

\* line 43: range(num_iterations) is exhausted, simulate returns
LoopExit ==
    /\ pc = "loop"
    /\ ~LoopContinues(i, num_iterations)
    /\ pc' = IF entry = "main" THEN "verbose_post" ELSE "done"
    /\ UNCHANGED <<entry, agents, sex, age, hiv, parameters, num_iterations, i, j,
                   prevalence, reports, blocks, err, hist>>

\* line 45: prevalence = len([... if a.hiv > 0]) / len(agents)
ComputePrevalence ==
    /\ pc = "prevalence"
    /\ IF Len(agents) = 0
       THEN /\ err' = "ZeroDivisionError"
            /\ pc' = "raised"
            /\ UNCHANGED <<prevalence, j, hist>>
       ELSE /\ prevalence' = Quot(Infected(agents, hiv), Len(agents))
            /\ j' = 1
            /\ pc' = "infection_event"
            /\ hist' = [hist EXCEPT !.prevCount = @ + 1]
            /\ UNCHANGED err
    /\ UNCHANGED <<entry, agents, sex, age, hiv, parameters, num_iterations, i,
                   reports, blocks>>

\* lines 47-49: agent.infection_event(prevalence, PROB_NEW_PARTNER, FORCE_INFECTION)
\* for the agent at position j; random.random() is called only when the guard
\* lets it be (DrawsTaken), and the value drawn is kept in hist.draw
InfectionEvent ==
    /\ pc = "infection_event"
    /\ j <= Len(agents)
    /\ \E draw \in (IF DrawsTaken(hiv[agents[j]]) = 1 THEN Draws ELSE {NoDraw}) :
          /\ hiv' = [hiv EXCEPT ![agents[j]] =
                       InfectionStage(@, draw, PrevalenceArg,
                                      parameters.PROB_NEW_PARTNER,
                                      parameters.FORCE_INFECTION)]
          /\ hist' = [hist EXCEPT
                         !.args = Append(@, PrevalenceArg),
                         !.events = Append(@, <<"infection_event", agents[j]>>),
                         !.draw = draw,
                         !.drawCount = @ + DrawsTaken(hiv[agents[j]])]
    /\ pc' = "age_event"
    /\ UNCHANGED <<entry, agents, sex, age, parameters, num_iterations, i, j,
                   prevalence, reports, blocks, err>>

\* variant: the iteration skips the agent after the one it has just handled
NextPositionSkip(pos) == pos + 2

\* `for agent in agents`: the position after pos
NextPosition(pos) == pos + 1

\* line 50: agent.age_event(TIME_STEP) for the agent at position j
AgeEvent ==
    /\ pc = "age_event"
    /\ age' = [age EXCEPT ![agents[j]] = AgeAfter(@, parameters.TIME_STEP)]
    /\ j' = NextPosition(j)
    /\ pc' = "infection_event"
    /\ hist' = [hist EXCEPT !.events = Append(@, <<"age_event", agents[j]>>),
                            !.draw = NoDraw]
    /\ UNCHANGED <<entry, agents, sex, hiv, parameters, num_iterations, i,
                   prevalence, reports, blocks, err>>

\* line 51: report(START_DATE + i / YEAR, agents), then the next index
Report ==
    /\ pc = "infection_event"
    /\ j > Len(agents)
    /\ reports' = Append(reports,
                         ReportLine(ReportDate(parameters.START_DATE, i), agents, hiv))
    /\ i' = i + 1
    /\ pc' = "loop"
    /\ UNCHANGED <<entry, agents, sex, age, hiv, parameters, num_iterations, j,
                   prevalence, blocks, err, hist>>

Next ==
    \/ PrintVerbosePre
    \/ SimulateBegin
    \/ Shuffle
    \/ LoopExit
    \/ ComputePrevalence
    \/ InfectionEvent
    \/ AgeEvent
    \/ Report
    \/ PrintVerbosePost

Spec == Init /\ [][Next]_vars

FairSpec == Spec /\ WF_vars(Next)

TypeOK ==
    /\ pc \in {"verbose_pre", "simulate", "loop", "prevalence", "infection_event",
               "age_event", "verbose_post", "done", "raised"}
    /\ err \in {"none", "ZeroDivisionError"}
    /\ Len(agents) <= MaxAgents

\* ------------------------------------------------------------ observations
Last(s) == s[Len(s)]

InStep == pc \in {"infection_event", "age_event"}

\* the prevalence of the population as it was when the current step began
StepStartPrevalence == Quot(Infected(agents, hist.stepHiv), Len(agents))

\* C1: in every step the prevalence is computed exactly once, after the
\* shuffle and before any event of the step, and every infection_event of the
\* step receives that value: the prevalence of the population as the step
\* found it, whatever happened to agents earlier in the iteration order.
C1_FrozenPrevalence ==
    /\ pc = "prevalence" => hist.prevCount = 0 /\ hist.events = <<>> /\ hiv = hist.stepHiv
    /\ InStep =>
          /\ hist.prevCount = 1
          /\ prevalence = StepStartPrevalence
          /\ \A k \in 1..Len(hist.args) : hist.args[k] = StepStartPrevalence

\* the first agent of the order was infected in this step, so the live
\* prevalence has moved, and a later agent has just had its infection_event
C1_Witness ==
    /\ pc = "age_event"
    /\ j >= 2
    /\ hist.stepHiv[agents[1]] = 0
    /\ hiv[agents[1]] = 1
    /\ Len(hist.args) = j
    /\ Quot(Infected(agents, hiv), Len(agents)) # StepStartPrevalence

\* C2: the report of a step carries the infected count and the prevalence of
\* the population after all events of the step (prevalence = infected / size),
\* while the infection_events of the step were given the prevalence from
\* before them.
C2_ReportPostStep ==
    (pc = "loop" /\ reports # <<>>) =>
        /\ Len(reports) = i
        /\ Last(reports).infected = Infected(agents, hiv)
        /\ Last(reports).prevalence = Quot(Last(reports).infected, Len(agents))
        /\ Len(hist.args) = Len(agents)
        /\ \A k \in 1..Len(hist.args) : hist.args[k] = StepStartPrevalence

\* a step that infected somebody has been reported
C2_Witness ==
    /\ pc = "loop"
    /\ reports # <<>>
    /\ Last(reports).infected > Infected(agents, hist.stepHiv)

\* C3: 0 <= hiv <= 5 for every agent in every state, and the construction
\* transform maps every draw of numpy.random.geometric (an integer >= 1) into
\* 0..5: draw - 1 when that is at most 5, and 5 above.
C3_StageBound ==
    /\ \A a \in DOMAIN hiv : hiv[a] \in 0..MaxStage
    /\ \A g \in GeomDraws :
          /\ InitStage(g) \in 0..MaxStage
          /\ g - 1 <= MaxStage => InitStage(g) = g - 1
          /\ g - 1 > MaxStage => InitStage(g) = MaxStage

\* a run has finished with an agent whose draw was clamped and an agent that
\* was infected on the way
C3_Witness ==
    /\ pc = "done"
    /\ reports # <<>>
    /\ MaxGeom - 1 > MaxStage
    /\ \E a \in DOMAIN hiv : hist.hiv0[a] = InitStage(MaxGeom) /\ hiv[a] = MaxStage
    /\ \E a \in DOMAIN hiv : hist.hiv0[a] = 0 /\ hiv[a] = 1

\* C4: no step of the program moves an agent's hiv from a positive value to 0.
C4_OneWay ==
    [][\A a \in DOMAIN hiv : hiv[a] > 0 => hiv'[a] > 0]_vars

\* an agent infected in the first step has gone through a second step
C4_Witness ==
    /\ Len(reports) = 2
    /\ reports[1].infected > Infected(agents, hist.hiv0)

\* the indices 0 .. n-1 in increasing order
StepIndices(n) == [k \in 1..n |-> k - 1]

\* TIME_STEP > 0 and the population is not empty (neither changes in a run)
C5_Configured == parameters.TIME_STEP > 0 /\ Len(agents) > 0

\* floor(NUM_YEARS / TIME_STEP) for TIME_STEP > 0
C5_Floor ==
    IF parameters.TIME_STEP > 0
    THEN parameters.NUM_YEARS \div parameters.TIME_STEP ELSE 0

\* C5: with TIME_STEP > 0 and a non-empty population the program terminates
\* after exactly floor(NUM_YEARS / TIME_STEP) steps with one report per step,
\* the indices being 0, 1, ... in order; the tutorial's parameters give 730.
C5_Terminates ==
    /\ NumIterations(2 * YearNum, YearDen) = 730
    /\ <>[](C5_Configured =>
              /\ pc = "done"
              /\ err = "none"
              /\ Len(reports) = C5_Floor
              /\ hist.steps = StepIndices(C5_Floor))
    /\ [](C5_Configured =>
              /\ Len(reports) <= C5_Floor
              /\ Len(hist.steps) - Len(reports) \in {0, 1}
              /\ hist.steps = StepIndices(Len(hist.steps)))

\* a run of two steps has finished
C5_Witness ==
    /\ pc = "done"
    /\ parameters.TIME_STEP > 0
    /\ Len(agents) > 0
    /\ Len(reports) = 2
    /\ hist.steps = <<0, 1>>

\* no step has begun, nothing was reported, no agent was touched
NothingRan ==
    /\ hist.steps = <<>>
    /\ reports = <<>>
    /\ agents = [k \in 1..Len(agents) |-> k]
    /\ sex = hist.sex0
    /\ age = hist.age0
    /\ hiv = hist.hiv0

\* C6 as stated, for a positive TIME_STEP and a population that is not empty:
\* when NUM_YEARS = 0 or
\* TIME_STEP >= NUM_YEARS (equality included) simulate executes no step, emits
\* no report, does not raise and leaves every agent unchanged.
C6_AsStated ==
    (/\ parameters.TIME_STEP > 0
     /\ entry = "simulate"
     /\ Len(agents) > 0
     /\ \/ parameters.NUM_YEARS = 0
        \/ parameters.TIME_STEP >= parameters.NUM_YEARS) =>
        NothingRan /\ err = "none"

\* C6 (amended): when TIME_STEP > 0 and NUM_YEARS < TIME_STEP (NUM_YEARS = 0
\* included) simulate executes no step, emits no report, does not raise and
\* leaves every agent unchanged, so the two diagnostic blocks of main are
\* identical; an exception can then only come from the diagnostics of main
\* on an empty population, before simulate is called.  When TIME_STEP equals a
\* positive NUM_YEARS, a run that finishes has executed exactly one step.
C6_ZeroSteps ==
    /\ (parameters.TIME_STEP > 0 /\ parameters.NUM_YEARS < parameters.TIME_STEP) =>
          /\ NothingRan
          /\ err # "none" => entry = "main" /\ Len(agents) = 0 /\ blocks = <<>>
          /\ (pc = "done" /\ entry = "main") => Len(blocks) = 2 /\ blocks[1] = blocks[2]
    /\ (parameters.TIME_STEP > 0 /\ parameters.NUM_YEARS = parameters.TIME_STEP
            /\ pc = "done") =>
          hist.steps = <<0>> /\ Len(reports) = 1

\* main has finished a run whose TIME_STEP exceeds a positive NUM_YEARS
C6_Witness ==
    /\ pc = "done"
    /\ entry = "main"
    /\ parameters.TIME_STEP > parameters.NUM_YEARS
    /\ parameters.NUM_YEARS > 0
    /\ Len(blocks) = 2

\* C7: a TIME_STEP that is zero or negative is surfaced as an error before the
\* step loop begins: simulate never reaches its loop, and never returns
\* normally, with such a TIME_STEP.
C7_NonPositiveTimeStepRejected ==
    parameters.TIME_STEP <= 0 =>
        pc \notin {"loop", "prevalence", "infection_event", "age_event",
                   "verbose_post", "done"}

\* C8: with an empty population the program never attempts a division by
\* len(agents) = 0 and never gets past the statistic: it fails with an
\* explicit empty-population condition.
C8_EmptyPopulationGuarded ==
    Len(agents) = 0 =>
        /\ err # "ZeroDivisionError"
        /\ pc \notin {"loop", "prevalence", "verbose_post", "done"}

\* C9: with FORCE_INFECTION = 0 no agent's hiv ever differs from its initial
\* value, so the infected count stays the initial one, for every population,
\* PROB_NEW_PARTNER and draw.
C9_NoForceNoInfection ==
    parameters.FORCE_INFECTION = 0 =>
        /\ hiv = hist.hiv0
        /\ Infected(agents, hiv) = Infected(agents, hist.hiv0)
        /\ \A k \in 1..Len(reports) : reports[k].infected = Infected(agents, hist.hiv0)

\* two steps have run with FORCE_INFECTION = 0 on a population that has both
\* an infected and a susceptible agent
C9_Witness ==
    /\ parameters.FORCE_INFECTION = 0
    /\ pc = "done"
    /\ Len(reports) = 2
    /\ \E a \in DOMAIN hiv : hiv[a] = 0
    /\ \E a \in DOMAIN hiv : hiv[a] > 0

\* the age_event of agent a in the step that is under way has happened
AgedInStep(a) ==
    /\ Len(hist.steps) > Len(reports)
    /\ \E k \in 1..Len(hist.events) : hist.events[k] = <<"age_event", a>>

\* the number of age_events agent a has had
AgeEventsOf(a) == Len(reports) + (IF AgedInStep(a) THEN 1 ELSE 0)

Elements(s) == {s[k] : k \in 1..Len(s)}

\* C11: the list holds the same agents, each exactly once, in every state: its
\* length never changes, and a step that changes the order of the list (the
\* shuffle) leaves the fields of every agent as they were.
C11_SameAgents ==
    /\ [](/\ Len(agents) = Cardinality(DOMAIN hist.hiv0)
          /\ Elements(agents) = DOMAIN hist.hiv0
          /\ DOMAIN sex = DOMAIN hist.hiv0
          /\ DOMAIN age = DOMAIN hist.hiv0
          /\ DOMAIN hiv = DOMAIN hist.hiv0)
    /\ [][agents' # agents =>
            /\ Len(agents') = Len(agents)
            /\ Elements(agents') = Elements(agents)
            /\ sex' = sex /\ age' = age /\ hiv' = hiv]_vars

\* two steps have run and the list is no longer in construction order
C11_Witness ==
    /\ pc = "done"
    /\ Len(reports) = 2
    /\ Len(agents) >= 2
    /\ agents # [k \in 1..Len(agents) |-> k]

\* a quotient q with 0 <= q <= 1
InUnitInterval(q) == q.den > 0 /\ 0 <= q.num /\ q.num <= q.den

\* C12: every prevalence that is reported and every prevalence that is passed
\* to infection_event lies in [0, 1]; the reported infected count lies between
\* 0 and the size of the population.
C12_PrevalenceBounds ==
    /\ \A k \in 1..Len(reports) :
          /\ InUnitInterval(reports[k].prevalence)
          /\ reports[k].infected \in 0..Len(agents)
    /\ \A k \in 1..Len(hist.args) : InUnitInterval(hist.args[k])

\* a step was given a prevalence strictly between 0 and 1 and reported 1, with
\* an agent of stage 5 in the population
C12_Witness ==
    /\ pc = "loop"
    /\ reports # <<>>
    /\ Last(reports).prevalence.num = Last(reports).prevalence.den
    /\ hist.args # <<>>
    /\ hist.args[1].num > 0
    /\ hist.args[1].num < hist.args[1].den
    /\ \E a \in DOMAIN hiv : hiv[a] = MaxStage

\* C13: the infected counts of successive reports never decrease, the first
\* is at least the infected count of the initial population, and so is the
\* infected count of the population in every state.
C13_ReportsNonDecreasing ==
    /\ \A k \in 1..(Len(reports) - 1) : reports[k].infected <= reports[k + 1].infected
    /\ reports # <<>> => reports[1].infected >= Infected(agents, hist.hiv0)
    /\ Infected(agents, hiv) >= Infected(agents, hist.hiv0)

\* the first step infected nobody, the second did
C13_Witness ==
    /\ pc = "done"
    /\ Len(reports) = 2
    /\ reports[1].infected = Infected(agents, hist.hiv0)
    /\ reports[1].infected > 0
    /\ reports[2].infected > reports[1].infected

IsInfectionEvent == pc = "infection_event" /\ pc' = "age_event"

\* the step of the program is the age_event of the agent at position j
IsAgeEvent == pc = "age_event" /\ pc' = "infection_event"

\* C16: an infection_event changes nothing but the hiv of its own agent, and
\* that only from 0 to 1: it leaves a stage in 1..5 as it is; it changes no
\* sex and no age; an age_event changes no hiv and no age but its own
\* agent's; no step ever changes a sex.
C16_Frame ==
    /\ [](sex = hist.sex0)
    /\ [][/\ sex' = sex
          /\ IsInfectionEvent =>
                /\ age' = age
                /\ agents' = agents
                /\ \A a \in DOMAIN hiv :
                      /\ a # agents[j] => hiv'[a] = hiv[a]
                      /\ hiv[a] \in 1..MaxStage => hiv'[a] = hiv[a]
                      /\ hiv'[a] # hiv[a] => hiv[a] = 0 /\ hiv'[a] = 1
          /\ IsAgeEvent =>
                /\ hiv' = hiv
                /\ agents' = agents
                /\ \A a \in DOMAIN age : a # agents[j] => age'[a] = age[a]]_vars

\* an agent that was infected before the step has just had its
\* infection_event, after another agent was infected in the same step
C16_Witness ==
    /\ pc = "age_event"
    /\ hist.stepHiv[agents[j]] \in 1..MaxStage
    /\ hiv[agents[j]] = hist.stepHiv[agents[j]]
    /\ \E a \in DOMAIN hiv : hist.stepHiv[a] = 0 /\ hiv[a] = 1

\* the k-th event of a step in which the agents are handled in list order
EventAt(k) ==
    <<IF k % 2 = 1 THEN "infection_event" ELSE "age_event", agents[(k + 1) \div 2]>>

\* the positions of the events of a step at which event e happened
PositionsOf(e) == {k \in 1..Len(hist.events) : hist.events[k] = e}

\* C17: the events of a step are infection_event then age_event of the first
\* agent of the shuffled list, then those of the second, and so on; when the
\* step is over every agent has had exactly one infection_event and exactly
\* one age_event, the infection_event first.
C17_EventOrder ==
    /\ \A k \in 1..Len(hist.events) : hist.events[k] = EventAt(k)
    /\ pc = "infection_event" => Len(hist.events) = 2 * (j - 1)
    /\ pc = "age_event" => Len(hist.events) = 2 * j - 1
    /\ (pc \in {"loop", "verbose_post", "done"} /\ hist.steps # <<>>) =>
          /\ Len(hist.events) = 2 * Len(agents)
          /\ Len(reports) = Len(hist.steps)
          /\ \A a \in DOMAIN hiv :
                /\ Cardinality(PositionsOf(<<"infection_event", a>>)) = 1
                /\ Cardinality(PositionsOf(<<"age_event", a>>)) = 1
                /\ \A k \in PositionsOf(<<"infection_event", a>>) :
                      k + 1 \in PositionsOf(<<"age_event", a>>)

\* a step over two agents is complete
C17_Witness ==
    /\ pc = "loop"
    /\ reports # <<>>
    /\ Len(agents) = 2
    /\ Len(hist.events) = 4

\* force_infection * prob_new_partner * prevalence as passed to the last
\* infection_event, numerator and denominator
ProductNum ==
    parameters.FORCE_INFECTION * parameters.PROB_NEW_PARTNER * Last(hist.args).num

ProductDen == ProbDen * ProbDen * Last(hist.args).den

\* C18: an agent that was susceptible when its infection_event began is
\* infected by it exactly when the draw is strictly less than
\* force_infection * prob_new_partner * prevalence; the product is not
\* clamped: above 1 it infects whatever the draw, at 0 it never infects.
C18_InfectedIffDrawBelowRisk ==
    (pc = "age_event" /\ hist.stepHiv[agents[j]] = 0) =>
        /\ hist.draw \in Draws
        /\ hiv[agents[j]] \in {0, 1}
        /\ hiv[agents[j]] = 1 <=> hist.draw * ProductDen < ProductNum * DrawDen
        /\ ProductNum > ProductDen => hiv[agents[j]] = 1
        /\ ProductNum = 0 => hiv[agents[j]] = 0

\* the product is above 1 and the largest draw has infected the agent
C18_Witness ==
    /\ pc = "age_event"
    /\ hist.stepHiv[agents[j]] = 0
    /\ ProductNum > ProductDen
    /\ hist.draw = DrawDen - 1
    /\ hiv[agents[j]] = 1

\* C19: a population without an infected agent stays without one: no step of
\* the program infects an agent when nobody is infected, whatever
\* FORCE_INFECTION, PROB_NEW_PARTNER and the draws are.
C19_InfectionFreeAbsorbing ==
    /\ [](Infected(agents, hist.hiv0) = 0 => hiv = hist.hiv0)
    /\ [][Infected(agents, hiv) = 0 => Infected(agents', hiv') = 0]_vars

\* two steps have run on two susceptible agents with the largest force
C19_Witness ==
    /\ pc = "done"
    /\ Len(reports) = 2
    /\ Len(agents) = 2
    /\ parameters.FORCE_INFECTION = 4 * ProbDen
    /\ parameters.PROB_NEW_PARTNER = ProbDen
    /\ Infected(agents, hiv) = 0

\* the agents that have had their infection_event in the step and were
\* susceptible when the step began
DrewInStep ==
    {a \in DOMAIN hiv : hist.stepHiv[a] = 0 /\ PositionsOf(<<"infection_event", a>>) # {}}

\* C20: the number of calls of random.random() in a step is the number of
\* agents that were susceptible when the step began: one for each such agent
\* handled so far, none for an agent that was already infected.
C20_DrawsPerStep ==
    /\ hist.drawCount = Cardinality(DrewInStep)
    /\ pc = "age_event" =>
          (IF hist.stepHiv[agents[j]] = 0 THEN hist.draw \in Draws ELSE hist.draw = NoDraw)
    /\ (pc \in {"loop", "verbose_post", "done"} /\ hist.steps # <<>>) =>
          hist.drawCount = Len(agents) - Infected(agents, hist.stepHiv)

\* a step over one infected and one susceptible agent took one draw
C20_Witness ==
    /\ pc = "loop"
    /\ reports # <<>>
    /\ Len(agents) = 2
    /\ Infected(agents, hist.stepHiv) = 1
    /\ hist.drawCount = 1
====
